---- MODULE Spec2Model ----
(***************************************************************************)
(* Model of generic_factory.hpp: the named registry GenericFactory and the *)
(* type-keyed registry GenericSecondaryFactory.  Every static method is    *)
(* split at the points where another thread can interleave: the            *)
(* construction of the lock_guard, the find, the branch on its result, the *)
(* insertion by operator[] and the assignment to the new entry, the        *)
(* invocation of the stored std::function, and the lock_guard destructor.  *)
(***************************************************************************)
EXTENDS Integers, Sequences, FiniteSets, TLC

\* ------------------------------------------------------------------ bounds
NumThreads == 2     \* threads calling into the registries
MaxDepth == 2       \* nesting of calls: a constructor may call a registry

Threads == 1..NumThreads
\* The key strings: as many as threads, so that every thread can register a
\* key of its own ("TestSubDerived1", "TestSubDerived2", ...).
NameOf(i) == "TestSubDerived" \o ToString(i)
Names == {NameOf(i) : i \in Threads}

\* ------------------------------------------------------------ instantiations
\* Template instantiations of GenericFactory<Parent, Args...> and of
\* GenericSecondaryFactory<ConstructedParent, PrimaryParent, Args...>.
Factories == {"GenericFactory<TestSubBase>", "GenericFactory<Widget,json>"}
SecFactories ==
  {"GenericSecondaryFactory<TestBase,shared_ptr<TestSubBase>,float>"}
\* The handle kinds a PrimaryParent can be: std::shared_ptr, std::unique_ptr
\* or a plain pointer, and the handle type of kind k to class T.
PointerKinds == {"shared_ptr", "unique_ptr", "pointer"}
PointerTo(k, T) ==
  IF k = "pointer" THEN T \o "*" ELSE k \o "<" \o T \o ">"
\* GenericSecondaryFactory<TestBase, AcceptedPointerType<...>, float>: the
\* instantiation the registration macro names for a handle kind
SecFactoryFor(k) ==
  "GenericSecondaryFactory<TestBase," \o PointerTo(k, "TestSubBase") \o ",float>"
MacroFactories == {SecFactoryFor(k) : k \in PointerKinds}
Registries == Factories \cup SecFactories \cup MacroFactories

\* ------------------------------------------------------------------- types
\* The primary classes: the interface and the classes derived from it (the
\* last one stands for a class derived from a registered class).
PrimaryParentType == "TestSubBase"
PrimaryTypes ==
  {"TestSubBase", "TestSubDerived1", "TestSubDerived2", "TestSubDerived1b"}
BaseOf(T) ==
  CASE T = "TestSubDerived1" -> "TestSubBase"
    [] T = "TestSubDerived2" -> "TestSubBase"
    [] T = "TestSubDerived1b" -> "TestSubDerived1"
    [] OTHER -> "none"

RECURSIVE IsOrDerivesFrom(_, _)
IsOrDerivesFrom(T, B) ==
  IF T = B THEN TRUE
  ELSE IF BaseOf(T) = "none" THEN FALSE
  ELSE IsOrDerivesFrom(BaseOf(T), B)

\* std::type_info::hash_code(): one value per type (the hash of its mangled
\* name; no two types of the program collide)
hash_code(T) ==
  CASE T = "TestSubBase" -> 11
    [] T = "TestSubDerived1" -> 151
    [] T = "TestSubDerived2" -> 152
    [] T = "TestSubDerived1b" -> 161
HashCodes == {hash_code(T) : T \in PrimaryTypes}

\* std::type_info::name(): the mangled name of the type
name(T) ==
  CASE T = "TestSubBase" -> "11TestSubBase"
    [] T = "TestSubDerived1" -> "15TestSubDerived1"
    [] T = "TestSubDerived2" -> "15TestSubDerived2"
    [] T = "TestSubDerived1b" -> "16TestSubDerived1b"

\* ------------------------------------------------- AcceptedPointerType
\* The classes a client names as CONSTRUCTED_CHILD_TYPENAME, and the handles
\* to the primary child their constructors take as first argument (each class
\* is named after them; TestDerived1 takes a std::shared_ptr).
ConstructedTypes ==
  {"TestDerived1", "TakesUnique", "TakesPointer", "TakesSharedUnique",
   "TakesSharedPointer", "TakesUniquePointer", "TakesAll", "TakesNone"}
Constructors(Constructed) ==
  CASE Constructed = "TestDerived1" -> {"shared_ptr"}
    [] Constructed = "TakesUnique" -> {"unique_ptr"}
    [] Constructed = "TakesPointer" -> {"pointer"}
    [] Constructed = "TakesSharedUnique" -> {"shared_ptr", "unique_ptr"}
    [] Constructed = "TakesSharedPointer" -> {"shared_ptr", "pointer"}
    [] Constructed = "TakesUniquePointer" -> {"unique_ptr", "pointer"}
    [] Constructed = "TakesAll" -> {"shared_ptr", "unique_ptr", "pointer"}
    [] OTHER -> {}

\* std::is_constructible<Constructed, k<FromChild>, Args...>::value
is_constructible(Constructed, k) == k \in Constructors(Constructed)

\* The partial specialisations of AcceptedPointerTypeHelper whose enable_if
\* condition holds for Constructed, each named by the handle kind of its
\* member type:
\*   shared_ptr  is_constructible<Constructed, std::shared_ptr<FromChild>, Args...>
\*   unique_ptr  is_constructible<Constructed, std::unique_ptr<FromChild>, Args...>
\*               && !is_constructible<Constructed, std::shared_ptr<FromChild>, Args...>
\*   pointer     is_constructible<Constructed, FromChild*, Args...>
AcceptedPointerTypeHelper(Constructed) ==
  {k \in PointerKinds :
     \/ /\ k = "shared_ptr"
        /\ is_constructible(Constructed, "shared_ptr")
     \/ /\ k = "unique_ptr"
        /\ is_constructible(Constructed, "unique_ptr")
        /\ ~is_constructible(Constructed, "shared_ptr")
     \/ /\ k = "pointer"
        /\ is_constructible(Constructed, "pointer")}

\* what the compiler says when the alias AcceptedPointerType names no type
CompileError(what, Constructed) ==
  [kind |-> "error", type |-> "compile_error", what |-> what,
   payload |-> <<Constructed>>]

\* AcceptedPointerType<Constructed, FromParent, FromChild, Args...>: the
\* member type of the one specialisation that matches.  With none matching
\* the primary template is used, which has no member type; with several
\* matching none is more specialised than another, and the instantiation is
\* ambiguous.  Both end the build.
AcceptedPointerType(Constructed) ==
  LET matching == AcceptedPointerTypeHelper(Constructed)
  IN IF matching = {}
       THEN CompileError("no type named 'type'", Constructed)
     ELSE IF Cardinality(matching) > 1
       THEN CompileError("ambiguous partial specializations", Constructed)
     ELSE [kind |-> "type", type |-> CHOOSE k \in matching : TRUE]

\* A handle PrimaryParent primary: its declared pointee type is the one of
\* the instantiation, the object it refers to has a runtime type.
Handle(T) == [declared |-> PrimaryParentType, runtime |-> T]
NoHandle == [declared |-> "none", runtime |-> "none"]

\* variant: the type the handle is declared with
typeid_static(primary) == primary.declared

\* typeid(*primary) of a polymorphic object: its runtime type
typeid_deref(primary) == primary.runtime

\* ------------------------------------------------------------------ makers
\* The closures (std::function) stored in a registry.
\* [](Args... args) { return std::make_unique<Child>(args...); }
MakeUnique(Child) == [fn |-> "make_unique", Returned |-> Child, Downcast |-> "none"]
\* [](PrimaryParent primary, Args... args) { return GenericFactoryInternals::
\*   createFunction<ConstructedChild, PrimaryChild>(primary, args...); }
CreateFunction(ConstructedChild, PrimaryChild) ==
  [fn |-> "createFunction", Returned |-> ConstructedChild, Downcast |-> PrimaryChild]
\* a closure written by the caller whose constructor calls a static method
\* of a registry (while nesting is below MaxDepth) and then returns its object
CallsRegistry == [fn |-> "calls_registry", Returned |-> "Custom", Downcast |-> "none"]
NoMaker == [fn |-> "none", Returned |-> "none", Downcast |-> "none"]
\* a default-constructed std::function: the value operator[] puts in the map
\* for a new key, before the assignment of the closure
EmptyFunction == [fn |-> "empty", Returned |-> "none", Downcast |-> "none"]

c1 == MakeUnique("TestSubDerived1")
c2 == MakeUnique("TestSubDerived2")
\* the closure thread t registers in a scripted program
MakerOf(t) == MakeUnique(NameOf(t))
d1 == CreateFunction("TestDerived1", "TestSubDerived1")
d2 == CreateFunction("TestDerived2", "TestSubDerived2")

End == <<>>         \* the iterator end(); <<k>> points to the entry of key k
Free == 0           \* a std::mutex nobody owns

\* ------------------------------------------------------------------ values
NoRet == [kind |-> "none"]
Bool(b) == [kind |-> "bool", val |-> b]
\* the object a closure returns
Instance(m) == [kind |-> "instance", builtBy |-> m]
\* std::make_unique<Returned>(downcast handle, args...)
SecInstance(m, primary, args) ==
  [kind |-> "instance", builtBy |-> m, primary |-> primary, args |-> args]
\* std::runtime_error("Unknown child: " + name)
UnknownChild(n) == [kind |-> "error", type |-> "runtime_error",
                    what |-> "Unknown child: ", payload |-> <<n>>]
\* std::runtime_error("Unknown child related to class: " + typeid(*primary).name())
UnknownClass(T) == [kind |-> "error", type |-> "runtime_error",
                    what |-> "Unknown child related to class: ",
                    payload |-> <<name(T)>>]
\* std::bad_function_call thrown by the call of an empty std::function
BadFunctionCall == [kind |-> "error", type |-> "bad_function_call",
                    what |-> "bad_function_call", payload |-> <<>>]
\* std::system_error thrown by std::mutex::lock on a detected self-deadlock
SystemError == [kind |-> "error", type |-> "system_error",
                what |-> "resource_deadlock_would_occur", payload |-> <<>>]

\* ---------------------------------------------------------------- programs
\* The client programs: which instantiations a program uses, the keys and
\* the closures it registers, the handles it creates from.  A free program
\* lets every thread issue any call at any time.  A scripted program fixes
\* the calls of each thread and keeps what they returned:
\*   startup  every thread registers a key of its own; once all these calls
\*            have returned, every thread creates from every key in turn;
\*   race     every thread registers the same key with a closure of its
\*            own; once all these calls have returned, every thread creates
\*            from that key;
\*   lookup   thread 1 registers a key while every other thread creates from
\*            that key, twice, without waiting for the registration;
\*   mirror   every call is made twice, side by side: thread 1 makes it on
\*            the named registry, thread 2 makes the matching call on the
\*            type-keyed registry (the class of that name as key, the
\*            closure that constructs from that class as maker);
\*   roundtrip  before thread 1 starts, every other thread may register the
\*            second key; then thread 1 registers the first key, unregisters
\*            it, registers it again with another closure and creates from
\*            it, while the other threads create from either key;
\*   macro    every thread is the static initialisation of a source file
\*            that holds one REGISTER_SECONDARY_CHILD_INTO_FACTORY.
GF1 == "GenericFactory<TestSubBase>"
NamedProgram ==
  [script |-> "free", factories |-> {GF1}, names |-> Names,
   makers |-> {c1, c2},
   secFactories |-> {}, secTypes |-> {}, secMakers |-> {}, handles |-> {}]
NestedProgram ==
  [script |-> "free", factories |-> Factories, names |-> {NameOf(1)},
   makers |-> {c1, CallsRegistry},
   secFactories |-> {}, secTypes |-> {}, secMakers |-> {}, handles |-> {}]
SecondaryProgram ==
  [script |-> "free", factories |-> {}, names |-> {}, makers |-> {},
   secFactories |-> SecFactories,
   secTypes |-> {"TestSubDerived1", "TestSubDerived2"},
   secMakers |-> {d1, d2, CallsRegistry},
   handles |-> {Handle("TestSubDerived1"), Handle("TestSubDerived2"),
                Handle("TestSubDerived1b")}]
StartupProgram ==
  [script |-> "startup", factories |-> {GF1}, names |-> Names,
   makers |-> {MakerOf(t) : t \in Threads},
   secFactories |-> {}, secTypes |-> {}, secMakers |-> {}, handles |-> {}]
RaceProgram ==
  [script |-> "race", factories |-> {GF1}, names |-> {NameOf(1)},
   makers |-> {MakerOf(t) : t \in Threads},
   secFactories |-> {}, secTypes |-> {}, secMakers |-> {}, handles |-> {}]
LookupProgram ==
  [script |-> "lookup", factories |-> {GF1}, names |-> {NameOf(1)},
   makers |-> {MakerOf(1)},
   secFactories |-> {}, secTypes |-> {}, secMakers |-> {}, handles |-> {}]
MirrorProgram ==
  [script |-> "mirror", factories |-> {GF1}, names |-> {NameOf(1), NameOf(2)},
   makers |-> {c1, c2},
   secFactories |-> SecFactories,
   secTypes |-> {"TestSubDerived1", "TestSubDerived2"},
   secMakers |-> {d1, d2},
   handles |-> {Handle("TestSubDerived1"), Handle("TestSubDerived2")}]
RoundTripProgram ==
  [script |-> "roundtrip", factories |-> {GF1},
   names |-> {NameOf(1), NameOf(2)},
   makers |-> {c1, c2} \cup {MakerOf(t) : t \in Threads \ {1}},
   secFactories |-> {}, secTypes |-> {}, secMakers |-> {}, handles |-> {}]
MacroProgram ==
  [script |-> "macro", factories |-> {}, names |-> {}, makers |-> {},
   secFactories |-> MacroFactories,
   secTypes |-> {"TestSubDerived1", "TestSubDerived2"},
   secMakers |-> {}, handles |-> {}]
Programs ==
  {NamedProgram, NestedProgram, SecondaryProgram, StartupProgram, RaceProgram,
   LookupProgram, MirrorProgram, RoundTripProgram, MacroProgram}
ArgVals == {0, 3}   \* the float handed to the secondary createChild

VARIABLES
  program,      \* the client program that runs (fixed at start)
  returned,     \* scripted programs: per thread, what its calls returned
  _children,    \* the map _children of every registry instance
  _mutex,       \* the std::mutex _mutex of every registry instance: owner or Free
  stack         \* per thread: the call frames, innermost last

vars == <<program, returned, _children, _mutex, stack>>

\* ---------------------------------------------------------------- helpers
\* variant: one static instance shared by every instantiation
getGenericFactory_shared(P) == "GenericFactory<TestSubBase>"

\* static GenericFactory &getGenericFactory(): one function-local static per
\* template instantiation.
getGenericFactory(P) == P

\* static GenericSecondaryFactory &getGenericSecondaryFactory()
getGenericSecondaryFactory(P) == P

factoryOf(f) ==
  IF f.cls = "GenericFactory" THEN getGenericFactory(f.P)
  ELSE getGenericSecondaryFactory(f.P)

Depth(t) == Len(stack[t])
Top(t) == stack[t][Len(stack[t])]
Idle(t) == stack[t] = <<>>
InOp(t, cls, op, pc) ==
  /\ ~Idle(t)
  /\ Top(t).cls = cls
  /\ Top(t).op = op
  /\ Top(t).pc = pc

SetTop(t, f) == stack' = [stack EXCEPT ![t][Len(stack[t])] = f]
Push(t, f) == stack' = [stack EXCEPT ![t] = Append(@, f)]

\* The frame of a call of a static method: its arguments, its position, the
\* iterator found, the value or exception it leaves with, and how many
\* times it has called a stored closure.  key is the name (GenericFactory)
\* or the template argument PrimaryChild (GenericSecondaryFactory).
Frame(cls, op, P, key, maker, primary, args) ==
  [cls |-> cls, op |-> op, P |-> P, key |-> <<key>>, maker |-> maker,
   primary |-> primary, args |-> args,
   pc |-> "lock", found |-> End, ret |-> NoRet, calls |-> 0]
GFFrame(op, P, n, maker) ==
  Frame("GenericFactory", op, P, n, maker, NoHandle, 0)
GSFFrame(op, P, PrimaryChild, maker, primary, args) ==
  Frame("GenericSecondaryFactory", op, P, PrimaryChild, maker, primary, args)

\* unordered_map::find: an iterator to the entry of key k, or end()
find(map, k) == IF map[k] # NoMaker THEN <<k>> ELSE End

\* A frame is left with value or exception r: the frame is popped.  The
\* outermost call hands r to its caller.  A call made by a constructor hands
\* it to the constructor: an exception leaves the constructor and the
\* createChild that called it (nothing catches it), a value lets the
\* constructor finish and return its object.
Leave(t, r) ==
  IF Depth(t) = 1
    THEN /\ stack' = [stack EXCEPT ![t] = <<>>]
         /\ returned' = IF program.script = "free" THEN returned
                        ELSE [returned EXCEPT ![t] = Append(@, r)]
    ELSE LET outer == stack[t][Len(stack[t]) - 1]
         IN /\ stack' = [stack EXCEPT ![t] =
                 Append(SubSeq(@, 1, Len(@) - 2),
                        [outer EXCEPT !.pc = "unlock",
                           !.ret = IF r.kind = "error" THEN r
                                   ELSE Instance(outer.maker)])]
            /\ returned' = returned

\* variant: a recursive mutex, which its owner locks again
lock_guard_recursive(t, i) ==
  /\ _mutex[i] \in {Free, t}
  /\ _mutex' = [_mutex EXCEPT ![i] = t]
  /\ SetTop(t, [Top(t) EXCEPT !.pc = "find"])
  /\ returned' = returned

\* std::lock_guard<std::mutex> guard(factory._mutex) by thread t on the
\* mutex of instance i.  A free mutex is taken.  A mutex owned by another
\* thread blocks (the step is not enabled).  std::mutex::lock by the thread
\* that owns it is undefined behaviour: a build either blocks forever or
\* throws std::system_error out of the call.
lock_guard(t, i) ==
  \/ /\ _mutex[i] = Free
     /\ _mutex' = [_mutex EXCEPT ![i] = t]
     /\ SetTop(t, [Top(t) EXCEPT !.pc = "find"])
     /\ returned' = returned
  \/ /\ _mutex[i] = t
     /\ _mutex' = _mutex
     /\ \/ /\ SetTop(t, [Top(t) EXCEPT !.pc = "deadlock"])
           /\ returned' = returned
        \/ Leave(t, SystemError)

Init ==
  /\ program \in Programs
  /\ returned = [t \in Threads |-> <<>>]
  /\ _children = [P \in Registries |->
                    IF P \in Factories THEN [n \in Names |-> NoMaker]
                    ELSE [h \in HashCodes |-> NoMaker]]
  /\ _mutex = [P \in Registries |-> Free]
  /\ stack = [t \in Threads |-> <<>>]

\* ------------------------------------------ GenericFactory::registerChild
\* a thread outside any call issues registerChild(name, maker)
call_registerChild(t) ==
  /\ program.script = "free"
  /\ Idle(t)
  /\ \E P \in program.factories, n \in program.names, maker \in program.makers :
       Push(t, GFFrame("registerChild", P, n, maker))
  /\ UNCHANGED <<program, returned, _children, _mutex>>

\* variant: no lock_guard, the method goes on whoever owns the mutex
registerChild_lock_missing(t) ==
  /\ InOp(t, "GenericFactory", "registerChild", "lock")
  /\ SetTop(t, [Top(t) EXCEPT !.pc = "find"])
  /\ UNCHANGED <<program, returned, _children, _mutex>>

registerChild_lock(t) ==
  /\ InOp(t, "GenericFactory", "registerChild", "lock")
  /\ lock_guard(t, getGenericFactory(Top(t).P))
  /\ UNCHANGED <<program, _children>>

\* variant: the map is tested for any entry (begin()), not for the key
registerChild_find_begin(t) ==
  /\ InOp(t, "GenericFactory", "registerChild", "find")
  /\ LET map == _children[getGenericFactory(Top(t).P)]
     IN SetTop(t, [Top(t) EXCEPT !.pc = "branch",
                     !.found = IF \E n \in Names : map[n] # NoMaker
                                 THEN <<CHOOSE n \in Names : map[n] # NoMaker>>
                                 ELSE End])
  /\ UNCHANGED <<program, returned, _children, _mutex>>

\* auto found = factory._children.find(name);
registerChild_find(t) ==
  /\ InOp(t, "GenericFactory", "registerChild", "find")
  /\ SetTop(t, [Top(t) EXCEPT !.pc = "branch",
                  !.found = find(_children[getGenericFactory(Top(t).P)], Top(t).key[1])])
  /\ UNCHANGED <<program, returned, _children, _mutex>>

\* variant: a duplicate key overwrites the stored closure
registerChild_reject_overwrites(t) ==
  /\ InOp(t, "GenericFactory", "registerChild", "branch")
  /\ Top(t).found # End
  /\ _children' = [_children EXCEPT
                     ![getGenericFactory(Top(t).P)][Top(t).key[1]] = Top(t).maker]
  /\ SetTop(t, [Top(t) EXCEPT !.pc = "unlock", !.found = End,
                  !.ret = Bool(FALSE)])
  /\ UNCHANGED <<program, returned, _mutex>>

\* if(found != factory._children.end()) return false;
registerChild_reject(t) ==
  /\ InOp(t, "GenericFactory", "registerChild", "branch")
  /\ Top(t).found # End
  /\ SetTop(t, [Top(t) EXCEPT !.pc = "unlock", !.found = End,
                  !.ret = Bool(FALSE)])
  /\ UNCHANGED <<program, returned, _children, _mutex>>

\* variant: reports success without storing the closure
registerChild_insert_not_stored(t) ==
  /\ InOp(t, "GenericFactory", "registerChild", "branch")
  /\ Top(t).found = End
  /\ SetTop(t, [Top(t) EXCEPT !.pc = "unlock", !.found = End,
                  !.ret = Bool(TRUE)])
  /\ UNCHANGED <<program, returned, _children, _mutex>>

\* factory._children[name] = maker;   its left side: operator[] finds no
\* entry under name and inserts one that holds an empty std::function
registerChild_insert(t) ==
  /\ InOp(t, "GenericFactory", "registerChild", "branch")
  /\ Top(t).found = End
  /\ _children' = [_children EXCEPT
                     ![getGenericFactory(Top(t).P)][Top(t).key[1]] = EmptyFunction]
  /\ SetTop(t, [Top(t) EXCEPT !.pc = "assign", !.found = End])
  /\ UNCHANGED <<program, returned, _mutex>>

\* factory._children[name] = maker;   the assignment to the new entry
\* return true;
registerChild_assign(t) ==
  /\ InOp(t, "GenericFactory", "registerChild", "assign")
  /\ _children' = [_children EXCEPT
                     ![getGenericFactory(Top(t).P)][Top(t).key[1]] = Top(t).maker]
  /\ SetTop(t, [Top(t) EXCEPT !.pc = "unlock", !.ret = Bool(TRUE)])
  /\ UNCHANGED <<program, returned, _mutex>>

\* ---------------------------------------- GenericFactory::unregisterChild
call_unregisterChild(t) ==
  /\ program.script = "free"
  /\ Idle(t)
  /\ \E P \in program.factories, n \in program.names :
       Push(t, GFFrame("unregisterChild", P, n, NoMaker))
  /\ UNCHANGED <<program, returned, _children, _mutex>>

unregisterChild_lock(t) ==
  /\ InOp(t, "GenericFactory", "unregisterChild", "lock")
  /\ lock_guard(t, getGenericFactory(Top(t).P))
  /\ UNCHANGED <<program, _children>>

unregisterChild_find(t) ==
  /\ InOp(t, "GenericFactory", "unregisterChild", "find")
  /\ SetTop(t, [Top(t) EXCEPT !.pc = "branch",
                  !.found = find(_children[getGenericFactory(Top(t).P)], Top(t).key[1])])
  /\ UNCHANGED <<program, returned, _children, _mutex>>

\* if(found == factory._children.end()) return false;
unregisterChild_absent(t) ==
  /\ InOp(t, "GenericFactory", "unregisterChild", "branch")
  /\ Top(t).found = End
  /\ SetTop(t, [Top(t) EXCEPT !.pc = "unlock", !.found = End,
                  !.ret = Bool(FALSE)])
  /\ UNCHANGED <<program, returned, _children, _mutex>>

\* variant: reports the key as removed and leaves its entry in the map
unregisterChild_erase_skipped(t) ==
  /\ InOp(t, "GenericFactory", "unregisterChild", "branch")
  /\ Top(t).found # End
  /\ SetTop(t, [Top(t) EXCEPT !.pc = "unlock", !.found = End,
                  !.ret = Bool(TRUE)])
  /\ UNCHANGED <<program, returned, _children, _mutex>>

\* variant: the whole map is emptied instead of the one entry
unregisterChild_erase_clears(t) ==
  /\ InOp(t, "GenericFactory", "unregisterChild", "branch")
  /\ Top(t).found # End
  /\ _children' = [_children EXCEPT
                     ![getGenericFactory(Top(t).P)] = [n \in Names |-> NoMaker]]
  /\ SetTop(t, [Top(t) EXCEPT !.pc = "unlock", !.found = End,
                  !.ret = Bool(TRUE)])
  /\ UNCHANGED <<program, returned, _mutex>>

\* variant: the stored closure is reset, its entry stays in the map
unregisterChild_erase_resets(t) ==
  /\ InOp(t, "GenericFactory", "unregisterChild", "branch")
  /\ Top(t).found # End
  /\ _children' = [_children EXCEPT
                     ![getGenericFactory(Top(t).P)][Top(t).key[1]] = EmptyFunction]
  /\ SetTop(t, [Top(t) EXCEPT !.pc = "unlock", !.found = End,
                  !.ret = Bool(TRUE)])
  /\ UNCHANGED <<program, returned, _mutex>>

\* factory._children.erase(found); return true;
unregisterChild_erase(t) ==
  /\ InOp(t, "GenericFactory", "unregisterChild", "branch")
  /\ Top(t).found # End
  /\ _children' = [_children EXCEPT
                     ![getGenericFactory(Top(t).P)][Top(t).key[1]] = NoMaker]
  /\ SetTop(t, [Top(t) EXCEPT !.pc = "unlock", !.found = End,
                  !.ret = Bool(TRUE)])
  /\ UNCHANGED <<program, returned, _mutex>>

\* -------------------------------------------- GenericFactory::createChild
call_createChild(t) ==
  /\ program.script = "free"
  /\ Idle(t)
  /\ \E P \in program.factories, n \in program.names :
       Push(t, GFFrame("createChild", P, n, NoMaker))
  /\ UNCHANGED <<program, returned, _children, _mutex>>

\* variant: createChild reads the map without the lock_guard
createChild_lock_missing(t) ==
  /\ InOp(t, "GenericFactory", "createChild", "lock")
  /\ SetTop(t, [Top(t) EXCEPT !.pc = "find"])
  /\ UNCHANGED <<program, returned, _children, _mutex>>

createChild_lock(t) ==
  /\ InOp(t, "GenericFactory", "createChild", "lock")
  /\ lock_guard(t, getGenericFactory(Top(t).P))
  /\ UNCHANGED <<program, _children>>

\* variant: the lookup is made with operator[], which inserts an entry that
\* holds an empty std::function under a key it does not find
createChild_find_inserts(t) ==
  /\ InOp(t, "GenericFactory", "createChild", "find")
  /\ LET i == getGenericFactory(Top(t).P)
         k == Top(t).key[1]
     IN /\ _children' = IF _children[i][k] = NoMaker
                          THEN [_children EXCEPT ![i][k] = EmptyFunction]
                          ELSE _children
        /\ SetTop(t, [Top(t) EXCEPT !.pc = "branch", !.found = <<k>>])
  /\ UNCHANGED <<program, returned, _mutex>>

createChild_find(t) ==
  /\ InOp(t, "GenericFactory", "createChild", "find")
  /\ SetTop(t, [Top(t) EXCEPT !.pc = "branch",
                  !.found = find(_children[getGenericFactory(Top(t).P)], Top(t).key[1])])
  /\ UNCHANGED <<program, returned, _children, _mutex>>

\* variant: an unknown key yields a null object instead of an exception
createChild_returns_null(t) ==
  /\ InOp(t, "GenericFactory", "createChild", "branch")
  /\ Top(t).found = End
  /\ SetTop(t, [Top(t) EXCEPT !.pc = "unlock", !.found = End,
                  !.ret = Instance(NoMaker)])
  /\ UNCHANGED <<program, returned, _children, _mutex>>

\* if(found == factory._children.end())
\*     throw(std::runtime_error("Unknown child: " + name));
createChild_throw(t) ==
  /\ InOp(t, "GenericFactory", "createChild", "branch")
  /\ Top(t).found = End
  /\ SetTop(t, [Top(t) EXCEPT !.pc = "unlock", !.found = End,
                  !.ret = UnknownChild(Top(t).key[1])])
  /\ UNCHANGED <<program, returned, _children, _mutex>>

\* found->second(...) in frame f: std::function::operator() of the entry
\* stored calls the closure it holds, and throws std::bad_function_call when
\* it holds none.
function_call(f, stored) ==
  IF stored = EmptyFunction
    THEN [f EXCEPT !.pc = "unlock", !.found = End, !.ret = BadFunctionCall]
    ELSE [f EXCEPT !.pc = "ctor", !.found = End, !.maker = stored,
                   !.calls = f.calls + 1]

\* variant: the guard covers the lookup only and is gone when the closure runs
createChild_invoke_unguarded(t) ==
  /\ InOp(t, "GenericFactory", "createChild", "branch")
  /\ Top(t).found # End
  /\ _mutex' = [_mutex EXCEPT ![getGenericFactory(Top(t).P)] = Free]
  /\ SetTop(t, function_call(Top(t),
                  _children[getGenericFactory(Top(t).P)][Top(t).found[1]]))
  /\ UNCHANGED <<program, returned, _children>>

\* return found->second(args...);   the call of the stored std::function,
\* made with the guard still alive
createChild_invoke(t) ==
  /\ InOp(t, "GenericFactory", "createChild", "branch")
  /\ Top(t).found # End
  /\ SetTop(t, function_call(Top(t),
                  _children[getGenericFactory(Top(t).P)][Top(t).found[1]]))
  /\ UNCHANGED <<program, returned, _children, _mutex>>

\* ---------------------------------- GenericSecondaryFactory::registerChild
\* a thread outside any call issues registerChild<PrimaryChild>(maker)
call_sec_registerChild(t) ==
  /\ program.script = "free"
  /\ Idle(t)
  /\ \E P \in program.secFactories, PrimaryChild \in program.secTypes,
        maker \in program.secMakers :
       Push(t, GSFFrame("registerChild", P, PrimaryChild, maker, NoHandle, 0))
  /\ UNCHANGED <<program, returned, _children, _mutex>>

sec_registerChild_lock(t) ==
  /\ InOp(t, "GenericSecondaryFactory", "registerChild", "lock")
  /\ lock_guard(t, getGenericSecondaryFactory(Top(t).P))
  /\ UNCHANGED <<program, _children>>

\* size_t sought = typeid(PrimaryChild).hash_code();
\* auto found = factory._children.find(sought);
sec_registerChild_find(t) ==
  /\ InOp(t, "GenericSecondaryFactory", "registerChild", "find")
  /\ SetTop(t, [Top(t) EXCEPT !.pc = "branch",
                  !.found = find(_children[getGenericSecondaryFactory(Top(t).P)],
                                 hash_code(Top(t).key[1]))])
  /\ UNCHANGED <<program, returned, _children, _mutex>>

\* variant: a duplicate type overwrites the stored closure
sec_registerChild_reject_overwrites(t) ==
  /\ InOp(t, "GenericSecondaryFactory", "registerChild", "branch")
  /\ Top(t).found # End
  /\ _children' = [_children EXCEPT
                     ![getGenericSecondaryFactory(Top(t).P)]
                      [hash_code(Top(t).key[1])] = Top(t).maker]
  /\ SetTop(t, [Top(t) EXCEPT !.pc = "unlock", !.found = End,
                  !.ret = Bool(FALSE)])
  /\ UNCHANGED <<program, returned, _mutex>>

\* if(found != factory._children.end()) return false;
sec_registerChild_reject(t) ==
  /\ InOp(t, "GenericSecondaryFactory", "registerChild", "branch")
  /\ Top(t).found # End
  /\ SetTop(t, [Top(t) EXCEPT !.pc = "unlock", !.found = End,
                  !.ret = Bool(FALSE)])
  /\ UNCHANGED <<program, returned, _children, _mutex>>

\* factory._children[sought] = maker;   its left side: operator[] inserts an
\* entry that holds an empty std::function
sec_registerChild_insert(t) ==
  /\ InOp(t, "GenericSecondaryFactory", "registerChild", "branch")
  /\ Top(t).found = End
  /\ _children' = [_children EXCEPT
                     ![getGenericSecondaryFactory(Top(t).P)]
                      [hash_code(Top(t).key[1])] = EmptyFunction]
  /\ SetTop(t, [Top(t) EXCEPT !.pc = "assign", !.found = End])
  /\ UNCHANGED <<program, returned, _mutex>>

\* factory._children[sought] = maker;   the assignment to the new entry
\* return true;
sec_registerChild_assign(t) ==
  /\ InOp(t, "GenericSecondaryFactory", "registerChild", "assign")
  /\ _children' = [_children EXCEPT
                     ![getGenericSecondaryFactory(Top(t).P)]
                      [hash_code(Top(t).key[1])] = Top(t).maker]
  /\ SetTop(t, [Top(t) EXCEPT !.pc = "unlock", !.ret = Bool(TRUE)])
  /\ UNCHANGED <<program, returned, _mutex>>

\* -------------------------------- GenericSecondaryFactory::unregisterChild
call_sec_unregisterChild(t) ==
  /\ program.script = "free"
  /\ Idle(t)
  /\ \E P \in program.secFactories, PrimaryChild \in program.secTypes :
       Push(t, GSFFrame("unregisterChild", P, PrimaryChild, NoMaker, NoHandle, 0))
  /\ UNCHANGED <<program, returned, _children, _mutex>>

sec_unregisterChild_lock(t) ==
  /\ InOp(t, "GenericSecondaryFactory", "unregisterChild", "lock")
  /\ lock_guard(t, getGenericSecondaryFactory(Top(t).P))
  /\ UNCHANGED <<program, _children>>

\* auto found = factory._children.find(typeid(PrimaryChild).hash_code());
sec_unregisterChild_find(t) ==
  /\ InOp(t, "GenericSecondaryFactory", "unregisterChild", "find")
  /\ SetTop(t, [Top(t) EXCEPT !.pc = "branch",
                  !.found = find(_children[getGenericSecondaryFactory(Top(t).P)],
                                 hash_code(Top(t).key[1]))])
  /\ UNCHANGED <<program, returned, _children, _mutex>>

sec_unregisterChild_absent(t) ==
  /\ InOp(t, "GenericSecondaryFactory", "unregisterChild", "branch")
  /\ Top(t).found = End
  /\ SetTop(t, [Top(t) EXCEPT !.pc = "unlock", !.found = End,
                  !.ret = Bool(FALSE)])
  /\ UNCHANGED <<program, returned, _children, _mutex>>

sec_unregisterChild_erase(t) ==
  /\ InOp(t, "GenericSecondaryFactory", "unregisterChild", "branch")
  /\ Top(t).found # End
  /\ _children' = [_children EXCEPT
                     ![getGenericSecondaryFactory(Top(t).P)][Top(t).found[1]] = NoMaker]
  /\ SetTop(t, [Top(t) EXCEPT !.pc = "unlock", !.found = End,
                  !.ret = Bool(TRUE)])
  /\ UNCHANGED <<program, returned, _mutex>>

\* ------------------------------------ GenericSecondaryFactory::createChild
\* a thread outside any call issues createChild(primary, args)
call_sec_createChild(t) ==
  /\ program.script = "free"
  /\ Idle(t)
  /\ \E P \in program.secFactories, primary \in program.handles,
        args \in ArgVals :
       Push(t, GSFFrame("createChild", P, "none", NoMaker, primary, args))
  /\ UNCHANGED <<program, returned, _children, _mutex>>

sec_createChild_lock(t) ==
  /\ InOp(t, "GenericSecondaryFactory", "createChild", "lock")
  /\ lock_guard(t, getGenericSecondaryFactory(Top(t).P))
  /\ UNCHANGED <<program, _children>>

\* the entry of class T or, failing that, of the nearest base class that has one
RECURSIVE find_inherited(_, _)
find_inherited(map, T) ==
  IF map[hash_code(T)] # NoMaker THEN <<hash_code(T)>>
  ELSE IF BaseOf(T) = "none" THEN End
  ELSE find_inherited(map, BaseOf(T))

\* variant: an object whose class has no entry is looked up under its base
\* classes
sec_createChild_find_inherited(t) ==
  /\ InOp(t, "GenericSecondaryFactory", "createChild", "find")
  /\ SetTop(t, [Top(t) EXCEPT !.pc = "branch",
                  !.found = find_inherited(
                              _children[getGenericSecondaryFactory(Top(t).P)],
                              typeid_deref(Top(t).primary))])
  /\ UNCHANGED <<program, returned, _children, _mutex>>

\* auto found = factory._children.find(typeid(*primary).hash_code());
sec_createChild_find(t) ==
  /\ InOp(t, "GenericSecondaryFactory", "createChild", "find")
  /\ SetTop(t, [Top(t) EXCEPT !.pc = "branch",
                  !.found = find(_children[getGenericSecondaryFactory(Top(t).P)],
                                 hash_code(typeid_deref(Top(t).primary)))])
  /\ UNCHANGED <<program, returned, _children, _mutex>>

\* variant: the exception names the declared type of the handle
sec_createChild_throw_declared(t) ==
  /\ InOp(t, "GenericSecondaryFactory", "createChild", "branch")
  /\ Top(t).found = End
  /\ SetTop(t, [Top(t) EXCEPT !.pc = "unlock", !.found = End,
                  !.ret = UnknownClass(Top(t).primary.declared)])
  /\ UNCHANGED <<program, returned, _children, _mutex>>

\* if(found == factory._children.end()) throw(std::runtime_error(
\*     "Unknown child related to class: " + std::string(typeid(*primary).name())));
sec_createChild_throw(t) ==
  /\ InOp(t, "GenericSecondaryFactory", "createChild", "branch")
  /\ Top(t).found = End
  /\ SetTop(t, [Top(t) EXCEPT !.pc = "unlock", !.found = End,
                  !.ret = UnknownClass(typeid_deref(Top(t).primary))])
  /\ UNCHANGED <<program, returned, _children, _mutex>>

\* variant: the closure called is that of the first entry of the map
sec_createChild_invoke_begin(t) ==
  /\ InOp(t, "GenericSecondaryFactory", "createChild", "branch")
  /\ Top(t).found # End
  /\ LET map == _children[getGenericSecondaryFactory(Top(t).P)]
     IN SetTop(t, function_call(Top(t),
                    map[CHOOSE h \in HashCodes : map[h] # NoMaker]))
  /\ UNCHANGED <<program, returned, _children, _mutex>>

\* return found->second(primary, args...);
sec_createChild_invoke(t) ==
  /\ InOp(t, "GenericSecondaryFactory", "createChild", "branch")
  /\ Top(t).found # End
  /\ SetTop(t, function_call(Top(t),
                  _children[getGenericSecondaryFactory(Top(t).P)][Top(t).found[1]]))
  /\ UNCHANGED <<program, returned, _children, _mutex>>

\* ------------------------------------------------------ scripted programs
\* the registration every thread of a scripted program starts with
script_registerChild(t) ==
  /\ program.script \in {"startup", "race"}
  /\ Idle(t)
  /\ returned[t] = <<>>
  /\ Push(t, GFFrame("registerChild", GF1,
                     IF program.script = "startup" THEN NameOf(t) ELSE NameOf(1),
                     MakerOf(t)))
  /\ UNCHANGED <<program, returned, _children, _mutex>>

\* The keys a scripted thread creates from, in order, once every thread's
\* registration has returned.
CreateKeys ==
  IF program.script = "startup" THEN [i \in Threads |-> NameOf(i)]
  ELSE <<NameOf(1)>>

script_createChild(t) ==
  /\ program.script \in {"startup", "race"}
  /\ Idle(t)
  /\ \A u \in Threads : Len(returned[u]) >= 1
  /\ Len(returned[t]) <= Len(CreateKeys)
  /\ Push(t, GFFrame("createChild", GF1, CreateKeys[Len(returned[t])], NoMaker))
  /\ UNCHANGED <<program, returned, _children, _mutex>>

\* The class registered under a name (REGISTER_CHILD_INTO_FACTORY(TestSubBase,
\* TestSubDerived1, "TestSubDerived1")), and the closure of the type-keyed
\* registry that matches a closure of the named one (TestDerived1 is
\* constructed from a TestSubDerived1).
ClassNamed(n) == n
Mirror(maker) ==
  IF maker = c1 THEN d1
  ELSE IF maker = c2 THEN d2
  ELSE maker

\* a pair of calls of the mirror program; the results of the pair before are
\* dropped
mirror_call(t) ==
  /\ program.script = "mirror"
  /\ t = 1
  /\ Idle(1)
  /\ Idle(2)
  /\ \E op \in {"registerChild", "unregisterChild", "createChild"},
        n \in program.names, maker \in program.makers, args \in ArgVals :
       /\ op # "registerChild" => maker = c1
       /\ op # "createChild" => args = 0
       /\ LET P == CHOOSE Q \in program.secFactories : TRUE
              m == IF op = "registerChild" THEN maker ELSE NoMaker
          IN stack' = [stack EXCEPT
               ![1] = <<GFFrame(op, GF1, n, m)>>,
               ![2] = <<IF op = "createChild"
                          THEN GSFFrame(op, P, "none", NoMaker,
                                        Handle(ClassNamed(n)), args)
                          ELSE GSFFrame(op, P, ClassNamed(n), Mirror(m),
                                        NoHandle, 0)>>]
  /\ returned' = [u \in Threads |-> <<>>]
  /\ UNCHANGED <<program, _children, _mutex>>

\* the registration of the lookup program
lookup_registerChild(t) ==
  /\ program.script = "lookup"
  /\ t = 1
  /\ Idle(t)
  /\ returned[t] = <<>>
  /\ Push(t, GFFrame("registerChild", GF1, NameOf(1), MakerOf(1)))
  /\ UNCHANGED <<program, returned, _children, _mutex>>

\* the two createChild of the same key by each other thread of the lookup
\* program
lookup_createChild(t) ==
  /\ program.script = "lookup"
  /\ t # 1
  /\ Idle(t)
  /\ Len(returned[t]) < 2
  /\ Push(t, GFFrame("createChild", GF1, NameOf(1), NoMaker))
  /\ UNCHANGED <<program, returned, _children, _mutex>>

\* the calls of thread 1 in the roundtrip program, in order
RoundTripCalls ==
  <<GFFrame("registerChild", GF1, NameOf(1), c1),
    GFFrame("unregisterChild", GF1, NameOf(1), NoMaker),
    GFFrame("registerChild", GF1, NameOf(1), c2),
    GFFrame("createChild", GF1, NameOf(1), NoMaker)>>

\* thread 1 of the roundtrip program has made its first call
RoundTripStarted == ~Idle(1) \/ returned[1] # <<>>

\* before thread 1 starts, another thread registers the second key
roundtrip_setup(t) ==
  /\ program.script = "roundtrip"
  /\ t # 1
  /\ Idle(t)
  /\ returned[t] = <<>>
  /\ ~RoundTripStarted
  /\ Push(t, GFFrame("registerChild", GF1, NameOf(2), MakerOf(t)))
  /\ UNCHANGED <<program, returned, _children, _mutex>>

\* the next call of thread 1; the first waits for the registrations of the
\* other threads to have returned
roundtrip_call(t) ==
  /\ program.script = "roundtrip"
  /\ t = 1
  /\ Idle(t)
  /\ Len(returned[t]) < Len(RoundTripCalls)
  /\ returned[t] = <<>> => \A u \in Threads : Idle(u)
  /\ Push(t, RoundTripCalls[Len(returned[t]) + 1])
  /\ UNCHANGED <<program, returned, _children, _mutex>>

\* once thread 1 has started, the other threads create from either key
roundtrip_createChild(t) ==
  /\ program.script = "roundtrip"
  /\ t # 1
  /\ Idle(t)
  /\ RoundTripStarted
  /\ Len(returned[t]) < 2
  /\ \E n \in program.names :
       Push(t, GFFrame("createChild", GF1, n, NoMaker))
  /\ UNCHANGED <<program, returned, _children, _mutex>>

\* REGISTER_SECONDARY_CHILD_INTO_FACTORY(TestBase, TestSubBase, Constructed,
\*                                       PrimaryChild, float) in a source file:
\* const bool TestBase_FromTestSubBase_Registered = GenericSecondaryFactory<
\*     TestBase, AcceptedPointerType<Constructed, TestSubBase, PrimaryChild,
\*     float>, float>::registerChild<Constructed, PrimaryChild>();
\* When AcceptedPointerType names a type the initialiser calls registerChild
\* of that instantiation; when it names none the file does not compile.
REGISTER_SECONDARY_CHILD_INTO_FACTORY(t) ==
  /\ program.script = "macro"
  /\ Idle(t)
  /\ returned[t] = <<>>
  /\ \E Constructed \in ConstructedTypes, PrimaryChild \in program.secTypes :
       LET accepted == AcceptedPointerType(Constructed)
       IN IF accepted.kind = "type"
            THEN /\ Push(t, GSFFrame("registerChild",
                                     SecFactoryFor(accepted.type), PrimaryChild,
                                     CreateFunction(Constructed, PrimaryChild),
                                     NoHandle, 0))
                 /\ returned' = returned
            ELSE /\ returned' = [returned EXCEPT ![t] = <<accepted>>]
                 /\ stack' = stack
  /\ UNCHANGED <<program, _children, _mutex>>

\* ----------------------------------------------- the registered closures
\* std::dynamic_pointer_cast<Downcast>(primary): the handle when the object
\* is a Downcast or derived from it, a null handle otherwise
dynamic_pointer_cast(Downcast, primary) ==
  IF primary.runtime # "nullptr" /\ IsOrDerivesFrom(primary.runtime, Downcast)
    THEN [declared |-> Downcast, runtime |-> primary.runtime]
    ELSE [declared |-> Downcast, runtime |-> "nullptr"]

\* GenericFactoryInternals::createFunction<Returned, Downcast>(primary, args...)
\* return std::make_unique<Returned>(
\*     std::dynamic_pointer_cast<Downcast>(primary), args...);
createFunction(t) ==
  /\ ~Idle(t)
  /\ Top(t).pc = "ctor"
  /\ Top(t).maker.fn = "createFunction"
  /\ SetTop(t, [Top(t) EXCEPT !.pc = "unlock",
                  !.ret = SecInstance(Top(t).maker,
                            dynamic_pointer_cast(Top(t).maker.Downcast, Top(t).primary),
                            Top(t).args)])
  /\ UNCHANGED <<program, returned, _children, _mutex>>

\* The body of a constructor that calls no registry: std::make_unique<Child>
\* (args...) returns the new object to createChild.  (A closure that calls
\* registries stops doing so at nesting MaxDepth.)
maker_body(t) ==
  /\ ~Idle(t)
  /\ Top(t).pc = "ctor"
  /\ \/ Top(t).maker.fn = "make_unique"
     \/ Top(t).maker.fn = "calls_registry" /\ Depth(t) >= MaxDepth
  /\ SetTop(t, [Top(t) EXCEPT !.pc = "unlock",
                  !.ret = Instance(Top(t).maker)])
  /\ UNCHANGED <<program, returned, _children, _mutex>>

\* The calls a constructor of the program can make: any static method of any
\* registry instance the program uses.
InnerCalls ==
  {GFFrame(op, P, n, IF op = "registerChild" THEN c1 ELSE NoMaker) :
     op \in {"registerChild", "unregisterChild", "createChild"},
     P \in program.factories, n \in program.names}
  \cup
  {GSFFrame(op, P, T, IF op = "registerChild" THEN d1 ELSE NoMaker, NoHandle, 0) :
     op \in {"registerChild", "unregisterChild"},
     P \in program.secFactories, T \in program.secTypes}
  \cup
  {GSFFrame("createChild", P, "none", NoMaker, h, 0) :
     P \in program.secFactories, h \in program.handles}

\* The body of a constructor that calls a static method of a registry: the
\* same instance or another one.  The constructor waits for the call.
maker_call(t) ==
  /\ ~Idle(t)
  /\ Top(t).pc = "ctor"
  /\ Top(t).maker.fn = "calls_registry"
  /\ Depth(t) < MaxDepth
  /\ \E f \in InnerCalls :
       stack' = [stack EXCEPT
                   ![t] = Append([@ EXCEPT ![Len(@)].pc = "inner"], f)]
  /\ UNCHANGED <<program, returned, _children, _mutex>>

\* ------------------------------------------------------ leaving a method
\* variant: the mutex is unlocked by hand before each return statement, and
\* stays locked when the method is left by an exception
lock_guard_release_on_return(t) ==
  /\ ~Idle(t)
  /\ Top(t).pc = "unlock"
  /\ _mutex' = IF Top(t).ret.kind = "error" THEN _mutex
               ELSE [_mutex EXCEPT ![factoryOf(Top(t))] = Free]
  /\ Leave(t, Top(t).ret)
  /\ UNCHANGED <<program, _children>>

\* ~lock_guard(): the guard declared in the method unlocks the mutex on
\* every way out, after the return value or the exception is made.
lock_guard_release(t) ==
  /\ ~Idle(t)
  /\ Top(t).pc = "unlock"
  /\ _mutex' = [_mutex EXCEPT ![factoryOf(Top(t))] = Free]
  /\ Leave(t, Top(t).ret)
  /\ UNCHANGED <<program, _children>>

Next ==
  \E t \in Threads :
    \/ call_registerChild(t)
    \/ registerChild_lock(t)
    \/ registerChild_find(t)
    \/ registerChild_reject(t)
    \/ registerChild_insert(t)
    \/ registerChild_assign(t)
    \/ call_unregisterChild(t)
    \/ unregisterChild_lock(t)
    \/ unregisterChild_find(t)
    \/ unregisterChild_absent(t)
    \/ unregisterChild_erase(t)
    \/ call_createChild(t)
    \/ createChild_lock(t)
    \/ createChild_find(t)
    \/ createChild_throw(t)
    \/ createChild_invoke(t)
    \/ call_sec_registerChild(t)
    \/ sec_registerChild_lock(t)
    \/ sec_registerChild_find(t)
    \/ sec_registerChild_reject(t)
    \/ sec_registerChild_insert(t)
    \/ sec_registerChild_assign(t)
    \/ call_sec_unregisterChild(t)
    \/ sec_unregisterChild_lock(t)
    \/ sec_unregisterChild_find(t)
    \/ sec_unregisterChild_absent(t)
    \/ sec_unregisterChild_erase(t)
    \/ call_sec_createChild(t)
    \/ sec_createChild_lock(t)
    \/ sec_createChild_find(t)
    \/ sec_createChild_throw(t)
    \/ sec_createChild_invoke(t)
    \/ script_registerChild(t)
    \/ script_createChild(t)
    \/ mirror_call(t)
    \/ lookup_registerChild(t)
    \/ lookup_createChild(t)
    \/ roundtrip_setup(t)
    \/ roundtrip_call(t)
    \/ roundtrip_createChild(t)
    \/ REGISTER_SECONDARY_CHILD_INTO_FACTORY(t)
    \/ createFunction(t)
    \/ maker_body(t)
    \/ maker_call(t)
    \/ lock_guard_release(t)

Spec == Init /\ [][Next]_vars

\* ================================================================ properties
Stepped(t) == stack'[t] # stack[t]
TopAfter(t) == stack'[t][Len(stack'[t])]
GF == "GenericFactory"
GSF == "GenericSecondaryFactory"
\* the frames of thread t, outermost first
FramesOf(t) == {stack[t][d] : d \in 1..Len(stack[t])}
\* positions inside the scope of the lock_guard
Critical == {"find", "branch", "assign", "ctor", "inner", "unlock"}

\* ------------------------------------------------------------------- C1
C1_RegisterStep(t) ==
  LET f == Top(t)
      g == TopAfter(t)
  IN /\ (InOp(t, GF, "registerChild", "branch") /\ Stepped(t)) =>
          /\ Len(stack'[t]) = Len(stack[t])
          /\ IF _children[f.P][f.key[1]] = NoMaker
               THEN /\ g.pc = "assign"
                    /\ _children' = [_children EXCEPT ![f.P][f.key[1]] = EmptyFunction]
               ELSE /\ g.pc = "unlock"
                    /\ g.ret = Bool(FALSE)
                    /\ _children' = _children
     /\ (InOp(t, GF, "registerChild", "assign") /\ Stepped(t)) =>
          /\ Len(stack'[t]) = Len(stack[t])
          /\ g.pc = "unlock"
          /\ g.ret = Bool(TRUE)
          /\ _children' = [_children EXCEPT ![f.P][f.key[1]] = f.maker]

C1_CreateUsesStored ==
  \A t \in Threads :
    (InOp(t, GF, "createChild", "unlock") /\ Top(t).ret.kind = "instance") =>
      Top(t).ret = Instance(_children[Top(t).P][Top(t).key[1]])

\* C1: named registry: registerChild on an absent key returns true and adds
\* exactly the entry key -> constructor; on a present key it returns false
\* and leaves the map unchanged, and an object createChild returns is always
\* built by the constructor stored under the key (the first one registered).
C1_RegisterNoOverwrite ==
  /\ [][\A t \in Threads : C1_RegisterStep(t)]_vars
  /\ []C1_CreateUsesStored

\* a second registration of a key, with another constructor, is rejected
\* and the first constructor is still stored
C1_Witness ==
  \E t \in Threads :
    /\ InOp(t, GF, "registerChild", "unlock")
    /\ Top(t).ret = Bool(FALSE)
    /\ Top(t).maker = c2
    /\ _children[Top(t).P][Top(t).key[1]] = c1

\* ------------------------------------------------------------------- C2
C2_UnregisterStep(t) ==
  LET f == Top(t)
      g == TopAfter(t)
  IN (InOp(t, GF, "unregisterChild", "branch") /\ Stepped(t)) =>
       /\ Len(stack'[t]) = Len(stack[t])
       /\ g.pc = "unlock"
       /\ IF _children[f.P][f.key[1]] # NoMaker
            THEN /\ g.ret = Bool(TRUE)
                 /\ _children' = [_children EXCEPT ![f.P][f.key[1]] = NoMaker]
            ELSE /\ g.ret = Bool(FALSE)
                 /\ _children' = _children

\* a key that is absent stays absent until a registerChild stores it
C2_AbsentUntilRegistered ==
  \A P \in Factories, k \in Names :
    (_children[P][k] = NoMaker /\ _children'[P][k] # NoMaker) =>
      \E t \in Threads :
        /\ InOp(t, GF, "registerChild", "branch")
        /\ Top(t).P = P
        /\ Top(t).key[1] = k
        /\ Stepped(t)

C2_CreateFailsWhileAbsent ==
  \A t \in Threads :
    (InOp(t, GF, "createChild", "unlock")
       /\ _children[Top(t).P][Top(t).key[1]] = NoMaker) =>
      Top(t).ret = UnknownChild(Top(t).key[1])

\* C2: named registry: unregisterChild on a present key returns true and
\* removes exactly that entry, on an absent key it returns false and changes
\* nothing; a removed key stays absent until it is registered again, and
\* createChild on it fails with the unknown-key error meanwhile.
C2_UnregisterRemoves ==
  /\ [][\A t \in Threads : C2_UnregisterStep(t)]_vars
  /\ [][C2_AbsentUntilRegistered]_vars
  /\ []C2_CreateFailsWhileAbsent

\* an unregisterChild of a present key is about to return true, the entry gone
C2_Witness ==
  \E t \in Threads :
    /\ InOp(t, GF, "unregisterChild", "unlock")
    /\ Top(t).ret = Bool(TRUE)
    /\ _children[Top(t).P][Top(t).key[1]] = NoMaker
    /\ \E k \in Names : _children[Top(t).P][k] # NoMaker

\* ------------------------------------------------------------------- C3
\* C3: named registry: a createChild whose key is not in the map ends with
\* the unknown-key error carrying that key, has called no constructor and
\* returns no object; a constructor runs only for a key that is in the map.
C3_UnknownKeyFails ==
  \A t \in Threads : \A f \in FramesOf(t) :
    (f.cls = GF /\ f.op = "createChild"
       /\ _children[f.P][f.key[1]] = NoMaker) =>
      /\ f.pc \notin {"ctor", "inner"}
      /\ f.calls = 0
      /\ f.pc = "unlock" =>
           /\ f.ret = UnknownChild(f.key[1])
           /\ f.ret.payload = <<f.key[1]>>

\* a createChild of an unregistered key is about to throw, no constructor called
C3_Witness ==
  \E t \in Threads :
    /\ InOp(t, GF, "createChild", "unlock")
    /\ Top(t).ret = UnknownChild(Top(t).key[1])
    /\ Top(t).calls = 0
    /\ _children[Top(t).P][Top(t).key[1]] = NoMaker

\* ------------------------------------------------------------------- C4
\* the closure stored under the runtime type of the object of handle h
StoredFor(P, h) == _children[P][hash_code(h.runtime)]

\* C4: type-keyed registry: the constructor createChild calls is the one
\* stored under the runtime type of the object the handle refers to, whatever
\* the declared type of the handle and the order of the registrations.
C4_RuntimeTypeSelects ==
  \A t \in Threads : \A f \in FramesOf(t) :
    (f.cls = GSF /\ f.op = "createChild") =>
      /\ f.pc \in {"ctor", "inner", "unlock"} /\ f.calls > 0 =>
           f.maker = StoredFor(f.P, f.primary)
      /\ f.pc = "unlock" /\ StoredFor(f.P, f.primary).fn = "createFunction" =>
           /\ f.ret.kind = "instance"
           /\ f.ret.builtBy = StoredFor(f.P, f.primary)

\* TestDerived1 is registered for TestSubDerived1 and TestDerived2 for
\* TestSubDerived2; a handle declared TestSubBase to a TestSubDerived2 gives
\* an object built by the TestDerived2 closure
C4_Witness ==
  \E t \in Threads :
    /\ InOp(t, GSF, "createChild", "unlock")
    /\ _children[Top(t).P][hash_code("TestSubDerived1")] = d1
    /\ _children[Top(t).P][hash_code("TestSubDerived2")] = d2
    /\ Top(t).primary = Handle("TestSubDerived2")
    /\ Top(t).primary.declared = "TestSubBase"
    /\ Top(t).ret.kind = "instance"
    /\ Top(t).ret.builtBy = d2

\* ------------------------------------------------------------------- C5
\* C5: type-keyed registry: a createChild whose object has a runtime type
\* with no entry ends with the unknown-class error naming that runtime
\* type, has called no constructor and returns no object.
C5_UnknownTypeFails ==
  \A t \in Threads : \A f \in FramesOf(t) :
    (f.cls = GSF /\ f.op = "createChild"
       /\ StoredFor(f.P, f.primary) = NoMaker) =>
      /\ f.pc \notin {"ctor", "inner"}
      /\ f.calls = 0
      /\ f.pc = "unlock" =>
           /\ f.ret = UnknownClass(f.primary.runtime)
           /\ f.ret.payload = <<name(f.primary.runtime)>>

\* a createChild from an object of an unregistered class is about to throw
C5_Witness ==
  \E t \in Threads :
    /\ InOp(t, GSF, "createChild", "unlock")
    /\ Top(t).primary.runtime = "TestSubDerived2"
    /\ StoredFor(Top(t).P, Top(t).primary) = NoMaker
    /\ Top(t).ret = UnknownClass("TestSubDerived2")
    /\ Top(t).calls = 0

\* ------------------------------------------------------------------- C6
\* C6: a frame inside the scope of its lock_guard, the running constructor
\* included, belongs to the thread that owns the mutex of its registry: no
\* other thread is inside registerChild, unregisterChild or createChild of
\* that instance, and no two constructors of one instance run together.
C6_GuardHeldDuringConstructor ==
  /\ \A t \in Threads : \A f \in FramesOf(t) :
       f.pc \in Critical => _mutex[f.P] = t
  /\ \A t, u \in Threads : \A f \in FramesOf(t), g \in FramesOf(u) :
       (t # u /\ f.P = g.P /\ f.pc \in {"ctor", "inner"}) =>
         g.pc \notin Critical

\* a constructor runs inside createChild while another thread waits at the
\* guard of the same registry
C6_Witness ==
  \E t, u \in Threads :
    /\ t # u
    /\ ~Idle(t) /\ ~Idle(u)
    /\ Top(t).op = "createChild" /\ Top(t).pc = "ctor"
    /\ Top(u).P = Top(t).P /\ Top(u).pc = "lock"
    /\ _mutex[Top(t).P] = t


\* ------------------------------------------------------------------- C7
AllRegistered == \A u \in Threads : Len(returned[u]) >= 1

\* C7: startup program: the threads register pairwise distinct keys
\* concurrently; every registration returns true, once all have returned the
\* map holds every thread's entry, and every createChild issued after that,
\* by any thread on any key, returns the object of that key's constructor.
C7_NoLostRegistration ==
  program.script = "startup" =>
    /\ \A t \in Threads :
         Len(returned[t]) >= 1 => returned[t][1] = Bool(TRUE)
    /\ AllRegistered =>
         \A u \in Threads : _children[GF1][NameOf(u)] = MakerOf(u)
    /\ \A t \in Threads : \A j \in 2..Len(returned[t]) :
         returned[t][j] = Instance(MakerOf(j - 1))

\* every thread has registered its key and created from every key
C7_Witness ==
  /\ program.script = "startup"
  /\ \A t \in Threads :
       /\ Len(returned[t]) = NumThreads + 1
       /\ returned[t][1] = Bool(TRUE)
       /\ returned[t][NumThreads + 1] = Instance(MakerOf(NumThreads))

\* ------------------------------------------------------------------- C8
Winners == {t \in Threads : Len(returned[t]) >= 1 /\ returned[t][1] = Bool(TRUE)}

\* the key of a frame in its map: the name, or the hash code of the type
\* (of PrimaryChild, or of the object for the secondary createChild)
MapKey(f) ==
  IF f.cls = GF THEN f.key[1]
  ELSE IF f.op = "createChild" THEN hash_code(f.primary.runtime)
  ELSE hash_code(f.key[1])

\* C8: the check and the insert of registerChild are one atomic step of the
\* map: what find saw is still true when the method acts on it (both
\* registries), and of the threads that race to register one absent key with
\* constructors of their own exactly one gets true, the others false, and the
\* map holds the winner's constructor.
C8_CheckThenInsertAtomic ==
  /\ \A t \in Threads : \A f \in FramesOf(t) :
       f.pc = "branch" => f.found = find(_children[f.P], MapKey(f))
  /\ program.script = "race" =>
       /\ Cardinality(Winners) <= 1
       /\ \A t \in Winners : _children[GF1][NameOf(1)] = MakerOf(t)
       /\ AllRegistered =>
            /\ Cardinality(Winners) = 1
            /\ \A t \in Threads \ Winners : returned[t][1] = Bool(FALSE)

\* all racing registrations have returned: one true, one false, and the
\* later createChild gave the winner's object
C8_Witness ==
  /\ program.script = "race"
  /\ AllRegistered
  /\ \E t, u \in Threads :
       /\ returned[t][1] = Bool(TRUE)
       /\ returned[u][1] = Bool(FALSE)
       /\ Len(returned[u]) = 2
       /\ returned[u][2] = Instance(MakerOf(t))

\* ------------------------------------------------------------------- C9
\* the innermost call of t is on a registry whose guard an outer createChild
\* of t holds (a constructor calling into its own registry instance)
SelfCall(t) ==
  /\ Depth(t) >= 2
  /\ \E d \in 1..(Depth(t) - 1) : stack[t][d].P = Top(t).P

C9_SelfCallStep(t) ==
  (SelfCall(t) /\ Stepped(t)) =>
    /\ Top(t).pc = "lock"
    /\ _children' = _children
    /\ _mutex' = _mutex
    /\ \/ /\ Len(stack'[t]) = Len(stack[t])
          /\ TopAfter(t).pc = "deadlock"
       \/ /\ Len(stack'[t]) = Len(stack[t]) - 1
          /\ TopAfter(t).pc = "unlock"
          /\ TopAfter(t).ret = SystemError

\* C9 as amended: a call a constructor makes into its own registry instance
\* never acquires the guard and never touches the map; the thread either
\* blocks forever in it, or the lock attempt throws std::system_error, which
\* is the only way the outer createChild ever leaves.
C9_SelfCallNeverAcquires ==
  /\ [](\A t \in Threads : SelfCall(t) => Top(t).pc \in {"lock", "deadlock"})
  /\ [][\A t \in Threads : C9_SelfCallStep(t)]_vars

\* C9 as claimed: once a constructor has called into its own registry
\* instance, the inner call never acquires the guard and the outer
\* createChild never returns.
C9_OuterNeverReturns ==
  [][\A t \in Threads :
       SelfCall(t) =>
         /\ Len(stack'[t]) = Len(stack[t])
         /\ TopAfter(t).pc \in {"lock", "deadlock"}]_vars

\* a constructor called into its own registry and the thread is blocked for
\* good, holding the guard
C9_Witness ==
  \E t \in Threads :
    /\ SelfCall(t)
    /\ Top(t).pc = "deadlock"
    /\ _mutex[Top(t).P] = t
    /\ stack[t][1].op = "createChild"

\* ------------------------------------------------------------------ C10
\* the innermost call of t was made by a constructor into another registry
\* instance than those whose guard t holds
CrossCall(t) == Depth(t) >= 2 /\ ~SelfCall(t)

C10_FrameStep(t) ==
  Stepped(t) =>
    IF Idle(t) THEN _children' = _children /\ _mutex' = _mutex
    ELSE \A Q \in Registries :
           Q # Top(t).P => _children'[Q] = _children[Q] /\ _mutex'[Q] = _mutex[Q]

AnyLock(t) ==
  \/ registerChild_lock(t)
  \/ unregisterChild_lock(t)
  \/ createChild_lock(t)
  \/ sec_registerChild_lock(t)
  \/ sec_unregisterChild_lock(t)
  \/ sec_createChild_lock(t)

C10_CrossCallStep(t) ==
  (CrossCall(t) /\ Top(t).pc = "lock" /\ Stepped(t)) =>
    /\ Len(stack'[t]) = Len(stack[t])
    /\ TopAfter(t).pc = "find"
    /\ _mutex'[Top(t).P] = t

\* C10 as amended: a step of a call on one instantiation leaves the map and
\* the mutex of every other instance unchanged, also under the same key
\* string; a call gets the guard of its instance whenever that guard is free,
\* whatever the other guards; a constructor's call into another instance is
\* never refused or blocked by the guard its thread holds.  (It still waits
\* for the other instance's own guard, whose holder may never release it.)
C10_InstancesIndependent ==
  /\ [][\A t \in Threads : C10_FrameStep(t) /\ C10_CrossCallStep(t)]_vars
  /\ [](\A t \in Threads :
          /\ (~Idle(t) /\ Top(t).pc = "lock" /\ _mutex[Top(t).P] = Free)
               => ENABLED AnyLock(t)
          /\ CrossCall(t) => Top(t).pc # "deadlock")

\* thread t can take a step now, or waits for a guard whose holder can
RECURSIVE CanRun(_, _)
CanRun(t, n) ==
  IF Idle(t) THEN TRUE
  ELSE IF Top(t).pc = "deadlock" THEN FALSE
  ELSE IF Top(t).pc # "lock" \/ _mutex[Top(t).P] \in {Free, t} THEN TRUE
  ELSE IF n = 0 THEN FALSE
  ELSE CanRun(_mutex[Top(t).P], n - 1)

\* C10 as claimed (its last part): a constructor running under the guard of
\* one instance that calls into a different instance completes; here, with
\* no constructor calling into its own instance, such a call is never
\* blocked for good.
C10_CrossCallCompletes ==
  (\A u \in Threads : ~SelfCall(u)) =>
    \A t \in Threads : CrossCall(t) => CanRun(t, NumThreads)

\* a constructor under the guard of one instantiation has registered the
\* same key string in the other instantiation, whose entry alone changed
C10_Witness ==
  \E t \in Threads :
    /\ CrossCall(t)
    /\ Top(t).op = "registerChild"
    /\ Top(t).pc = "unlock"
    /\ Top(t).ret = Bool(TRUE)
    /\ stack[t][1].P # Top(t).P
    /\ stack[t][1].key = Top(t).key
    /\ _children[stack[t][1].P][Top(t).key[1]] = CallsRegistry
    /\ _children[Top(t).P][Top(t).key[1]] = c1
    /\ _mutex[stack[t][1].P] = t
    /\ _mutex[Top(t).P] = t

\* ------------------------------------------------------------------ C11
\* the first handle kind the constructors of Constructed accept, in the
\* order shared, exclusive, borrowed
FirstAccepted(Constructed) ==
  IF is_constructible(Constructed, "shared_ptr") THEN "shared_ptr"
  ELSE IF is_constructible(Constructed, "unique_ptr") THEN "unique_ptr"
  ELSE "pointer"

\* C11: the registration macro of a class whose constructors accept at least
\* one handle kind selects exactly one kind, the first accepted in the order
\* shared, exclusive, borrowed: the class is registered in the instantiation
\* of that kind and in no other, and the selection fails only for a class
\* that accepts no kind.
C11_FirstAcceptedSelected ==
  program.script = "macro" =>
    /\ \A t \in Threads : \A f \in FramesOf(t) :
         /\ Constructors(f.maker.Returned) # {}
         /\ f.P = SecFactoryFor(FirstAccepted(f.maker.Returned))
    /\ \A t \in Threads :
         (returned[t] # <<>> /\ returned[t][1].kind = "error") =>
           Constructors(returned[t][1].payload[1]) = {}

\* the macro of a class with a constructor from std::shared_ptr and one from
\* a plain pointer has ended the build: two specialisations match
C11_Witness ==
  \E t \in Threads :
    /\ program.script = "macro"
    /\ returned[t] =
         <<CompileError("ambiguous partial specializations", "TakesSharedPointer")>>
    /\ AcceptedPointerTypeHelper("TakesSharedPointer") = {"shared_ptr", "pointer"}
    /\ FirstAccepted("TakesSharedPointer") = "shared_ptr"

\* ------------------------------------------------------------------ C12
\* C12: the downcast made by a registered closure of the type-keyed registry
\* is checked: a createChild whose object is neither of the class the closure
\* casts to nor of a class derived from it ends with an error, and no object
\* is ever constructed from a null handle.
C12_DowncastChecked ==
  \A t \in Threads : \A f \in FramesOf(t) :
    (f.cls = GSF /\ f.op = "createChild" /\ f.pc = "unlock"
       /\ f.maker.fn = "createFunction") =>
      /\ ~IsOrDerivesFrom(f.primary.runtime, f.maker.Downcast) =>
           f.ret.kind = "error"
      /\ f.ret.kind = "instance" => f.ret.primary.runtime # "nullptr"

\* the closure that casts to TestSubDerived1 is stored under TestSubDerived2;
\* createChild of a TestSubDerived2 is about to return a TestDerived1 that
\* was constructed from the null handle the cast gave
C12_Witness ==
  \E t \in Threads :
    /\ InOp(t, GSF, "createChild", "unlock")
    /\ Top(t).primary = Handle("TestSubDerived2")
    /\ StoredFor(Top(t).P, Top(t).primary) = d1
    /\ Top(t).ret.kind = "instance"
    /\ Top(t).ret.builtBy = d1
    /\ Top(t).ret.primary = [declared |-> "TestSubDerived1", runtime |-> "nullptr"]

\* ------------------------------------------------------------------ C13
\* the entry of key k in named registry P changes only in a step of a
\* registerChild or unregisterChild of P called with k itself
C13_OwnKeyStep ==
  \A P \in Factories, k \in Names :
    _children'[P][k] # _children[P][k] =>
      \E t \in Threads :
        /\ Stepped(t)
        /\ ~Idle(t)
        /\ Top(t).cls = GF
        /\ Top(t).op \in {"registerChild", "unregisterChild"}
        /\ Top(t).P = P
        /\ Top(t).key[1] = k

\* what createChild of key k hands back is decided by the entry of k alone:
\* the unknown-key error when there is none, else the object of the stored
\* constructor (or the exception that constructor threw)
C13_OwnEntryDecides ==
  \A t \in Threads : \A f \in FramesOf(t) :
    (f.cls = GF /\ f.op = "createChild" /\ f.pc = "unlock") =>
      IF _children[f.P][f.key[1]] = NoMaker
        THEN f.ret = UnknownChild(f.key[1])
        ELSE \/ f.ret = Instance(_children[f.P][f.key[1]])
             \/ /\ f.ret.kind = "error"
                /\ _children[f.P][f.key[1]] = CallsRegistry

\* C13: named registry, distinct keys: registering or unregistering one key
\* never changes the entry of another key, and createChild of a key returns
\* the object of the constructor stored under that very key, whatever is
\* stored, registered or removed under other keys.
C13_KeysIndependent ==
  /\ [][C13_OwnKeyStep]_vars
  /\ []C13_OwnEntryDecides

\* two keys are registered with different constructors; createChild of the
\* first key is about to return the object of the first key's constructor
\* while another thread is about to unregister the second key
C13_Witness ==
  \E t, u \in Threads :
    /\ program = NamedProgram
    /\ InOp(t, GF, "createChild", "unlock")
    /\ Top(t).key[1] = NameOf(1)
    /\ Top(t).ret = Instance(c1)
    /\ _children[GF1][NameOf(1)] = c1
    /\ _children[GF1][NameOf(2)] = c2
    /\ InOp(u, GF, "unregisterChild", "lock")
    /\ Top(u).key[1] = NameOf(2)

\* ------------------------------------------------------------------ C14
\* C14: lookup program: a createChild that races with the registerChild of
\* the same, absent key ends in one of two ways under every interleaving:
\* with the unknown-key error or with the object of the constructor being
\* registered.  The entry it finds always holds that constructor (never the
\* empty function operator[] puts there first), and a createChild that
\* follows a successful one succeeds too.
C14_RaceOutcomes ==
  program.script = "lookup" =>
    /\ \A t \in Threads \ {1} : \A j \in 1..Len(returned[t]) :
         \/ returned[t][j] = UnknownChild(NameOf(1))
         \/ returned[t][j] = Instance(MakerOf(1))
    /\ \A t \in Threads \ {1} :
         (Len(returned[t]) = 2 /\ returned[t][1].kind = "instance") =>
           returned[t][2].kind = "instance"
    /\ \A t \in Threads \ {1} : \A f \in FramesOf(t) :
         /\ (f.pc = "branch" /\ f.found # End) =>
              _children[GF1][NameOf(1)] = MakerOf(1)
         /\ f.pc = "ctor" => f.maker = MakerOf(1)
         /\ f.pc = "unlock" =>
              f.ret \in {UnknownChild(NameOf(1)), Instance(MakerOf(1))}

\* both outcomes in one run: the first createChild of a thread came before
\* the registration and failed, its second one came after and succeeded
C14_Witness ==
  /\ program.script = "lookup"
  /\ returned[1] = <<Bool(TRUE)>>
  /\ \E t \in Threads \ {1} :
       returned[t] = <<UnknownChild(NameOf(1)), Instance(MakerOf(1))>>

\* ------------------------------------------------------------------ C15
\* the map the registrations of the startup program amount to
StartupMapping == [n \in Names |-> MakeUnique(n)]

\* C15: startup program (one registration per source file, keys pairwise
\* distinct, in an order the program does not fix): at every moment the map
\* is decided by which registrations were made, not by their order: a
\* registration that has returned returned true and its entry holds its
\* constructor, one not yet begun has no entry; after all of them the map is
\* the same in every run, and so is the result of every createChild.
C15_OrderIrrelevant ==
  program.script = "startup" =>
    /\ \A t \in Threads :
         /\ returned[t] # <<>> =>
              /\ returned[t][1] = Bool(TRUE)
              /\ _children[GF1][NameOf(t)] = StartupMapping[NameOf(t)]
         /\ (returned[t] = <<>> /\ Idle(t)) =>
              _children[GF1][NameOf(t)] = NoMaker
    /\ AllRegistered =>
         /\ _children[GF1] = StartupMapping
         /\ \A t \in Threads : \A j \in 2..Len(returned[t]) :
              returned[t][j] = Instance(StartupMapping[CreateKeys[j - 1]])

\* the registrations in the reverse order: thread 1 is the last to register,
\* every other registration has returned, and the map is the same
C15_Witness ==
  /\ program.script = "startup"
  /\ InOp(1, GF, "registerChild", "unlock")
  /\ Top(1).ret = Bool(TRUE)
  /\ \A u \in Threads \ {1} : returned[u] = <<Bool(TRUE)>>
  /\ _children[GF1] = StartupMapping

\* ------------------------------------------------------------------ C16
\* a result of the named registry and one of the type-keyed registry say the
\* same: the same truth value, an object of matching constructors, or the
\* unknown-key error and the unknown-class error
SameResult(r, s) ==
  /\ r.kind = s.kind
  /\ r.kind = "bool" => r = s
  /\ r.kind = "instance" => s.builtBy = Mirror(r.builtBy)
  /\ r.kind = "error" =>
       \E n \in Names : r = UnknownChild(n) /\ s = UnknownClass(ClassNamed(n))

\* the map of type-keyed registry S holds, under the class of each name, the
\* closure that matches what named registry P holds under the name, and
\* nothing else
SameMapping(P, S) ==
  /\ \A n \in program.names :
       _children[S][hash_code(ClassNamed(n))] = Mirror(_children[P][n])
  /\ \A h \in HashCodes :
       _children[S][h] # NoMaker =>
         \E n \in program.names : h = hash_code(ClassNamed(n))

\* C16: mirror program: the same sequence of registerChild, unregisterChild
\* and createChild made on the named registry and, with the class of each
\* name as key, on the type-keyed registry: after every pair of calls the two
\* results say the same and the two maps hold matching entries.
C16_TypeKeyedMirrorsNamed ==
  (program.script = "mirror" /\ Idle(1) /\ Idle(2)) =>
    /\ Len(returned[1]) = Len(returned[2])
    /\ \A j \in 1..Len(returned[1]) : SameResult(returned[1][j], returned[2][j])
    /\ \A S \in program.secFactories : SameMapping(GF1, S)

\* a second registration under a key that is taken was rejected by both
\* registries, which both still hold the first closure, next to another entry
C16_Witness ==
  /\ program.script = "mirror"
  /\ Idle(1) /\ Idle(2)
  /\ returned[1] = <<Bool(FALSE)>>
  /\ returned[2] = <<Bool(FALSE)>>
  /\ _children[GF1][NameOf(1)] = c2
  /\ _children[GF1][NameOf(2)] = c1
  /\ \A S \in SecFactories :
       /\ _children[S][hash_code("TestSubDerived1")] = d2
       /\ _children[S][hash_code("TestSubDerived2")] = d1

\* ------------------------------------------------------------------ C17
\* the closure stored under the key frame f looks up
Stored(f) == _children[f.P][MapKey(f)]

\* C17: a createChild of either registry calls at most one stored closure:
\* none before the lookup has succeeded and none when it fails (the call ends
\* with the unknown-key or unknown-class error); after a successful lookup
\* exactly one, the closure stored under the key looked up, with the
\* caller's handle and arguments, whose object (or exception) is what the
\* call leaves with.
C17_OneConstructorCall ==
  \A t \in Threads : \A f \in FramesOf(t) :
    f.op = "createChild" =>
      /\ f.calls <= 1
      /\ f.pc \in {"lock", "deadlock", "find", "branch"} => f.calls = 0
      /\ f.pc \in {"ctor", "inner"} => f.calls = 1
      /\ (f.pc \in Critical /\ Stored(f) = NoMaker) => f.calls = 0
      /\ f.calls = 1 => f.maker = Stored(f)
      /\ f.pc = "unlock" =>
           IF f.calls = 0
             THEN f.ret = IF f.cls = GF THEN UnknownChild(f.key[1])
                          ELSE UnknownClass(f.primary.runtime)
             ELSE \/ /\ f.ret.kind = "instance"
                     /\ f.ret.builtBy = Stored(f)
                     /\ f.maker.fn = "createFunction" =>
                          /\ f.ret.args = f.args
                          /\ f.ret.primary =
                               dynamic_pointer_cast(f.maker.Downcast, f.primary)
                  \/ /\ f.ret.kind = "error"
                     /\ f.maker = CallsRegistry

\* a createChild of the type-keyed registry, called with 3, is about to
\* return the TestDerived2 its one closure call made from the handle and 3,
\* while another closure is stored next to the one called
C17_Witness ==
  \E t \in Threads :
    /\ InOp(t, GSF, "createChild", "unlock")
    /\ Top(t).calls = 1
    /\ Top(t).args = 3
    /\ Top(t).primary = Handle("TestSubDerived2")
    /\ Stored(Top(t)) = d2
    /\ _children[Top(t).P][hash_code("TestSubDerived1")] = d1
    /\ Top(t).ret =
         SecInstance(d2, [declared |-> "TestSubDerived2",
                          runtime |-> "TestSubDerived2"], 3)

\* ------------------------------------------------------------------ C18
\* no step of a createChild (its closure's body included) changes a map, and
\* from its lookup to its return the map of its registry stays as it is
C18_CreateStep ==
  \A t \in Threads :
    /\ (~Idle(t) /\ Top(t).op = "createChild" /\ Stepped(t)) =>
         _children' = _children
    /\ \A f \in FramesOf(t) :
         (f.op = "createChild" /\ f.pc \in Critical) =>
           _children'[f.P] = _children[f.P]

\* a map changes only in a step of a registerChild that found no entry or of
\* an unregisterChild that found one, and only under the key of that call
C18_MutatorStep ==
  \A P \in Registries :
    _children'[P] # _children[P] =>
      \E t \in Threads :
        /\ ~Idle(t)
        /\ Stepped(t)
        /\ Top(t).P = P
        /\ \/ /\ Top(t).op = "registerChild"
              /\ \/ /\ Top(t).pc = "branch"
                    /\ Top(t).found = End
                    /\ TopAfter(t).pc = "assign"
                 \/ /\ Top(t).pc = "assign"
                    /\ TopAfter(t).ret = Bool(TRUE)
           \/ /\ Top(t).op = "unregisterChild"
              /\ Top(t).pc = "branch" /\ Top(t).found # End
              /\ TopAfter(t).ret = Bool(TRUE)
        /\ \A k \in DOMAIN _children[P] :
             k # MapKey(Top(t)) => _children'[P][k] = _children[P][k]

\* C18: createChild never changes the map of either registry, whether it
\* succeeds or fails: the keys and the closure under each key are the same
\* after the call as at its lookup; a map changes only through a
\* registerChild that returns true or an unregisterChild that returns true.
C18_CreateLeavesMapping ==
  /\ [][C18_CreateStep]_vars
  /\ [][C18_MutatorStep]_vars

\* a createChild of an unregistered key is about to fail: the failed lookup
\* left no entry under its key, and the entry of the other key is in place
C18_Witness ==
  \E t \in Threads :
    /\ InOp(t, GF, "createChild", "unlock")
    /\ Top(t).ret = UnknownChild(NameOf(2))
    /\ _children[Top(t).P][NameOf(2)] = NoMaker
    /\ _children[Top(t).P][NameOf(1)] = c1

\* ------------------------------------------------------------------ C19
\* the steps of thread t inside a call that wait for nothing
Run(t) ==
  \/ registerChild_find(t)
  \/ registerChild_reject(t)
  \/ registerChild_insert(t)
  \/ registerChild_assign(t)
  \/ unregisterChild_find(t)
  \/ unregisterChild_absent(t)
  \/ unregisterChild_erase(t)
  \/ createChild_find(t)
  \/ createChild_throw(t)
  \/ createChild_invoke(t)
  \/ sec_registerChild_find(t)
  \/ sec_registerChild_reject(t)
  \/ sec_registerChild_insert(t)
  \/ sec_registerChild_assign(t)
  \/ sec_unregisterChild_find(t)
  \/ sec_unregisterChild_absent(t)
  \/ sec_unregisterChild_erase(t)
  \/ sec_createChild_find(t)
  \/ sec_createChild_throw(t)
  \/ sec_createChild_invoke(t)
  \/ createFunction(t)
  \/ maker_body(t)
  \/ maker_call(t)
  \/ lock_guard_release(t)

\* Fair scheduling: a thread inside a call keeps running, and a thread that
\* waits for a mutex which is free again and again gets it at last.  No
\* thread has to start a call.
FairSpec ==
  /\ Spec
  /\ \A t \in Threads : WF_vars(Run(t)) /\ SF_vars(AnyLock(t))

\* a mutex is owned only by a thread with a call of that instance in the
\* scope of its lock_guard; with no call in progress every mutex is free
C19_GuardOwned ==
  /\ \A P \in Registries : \A t \in Threads :
       _mutex[P] = t =>
         \E f \in FramesOf(t) : f.P = P /\ f.pc \in Critical
  /\ (\A t \in Threads : Idle(t)) => \A P \in Registries : _mutex[P] = Free

\* a call that holds the guard gives it back in the step it is left with,
\* by a return or by an exception
C19_ExitStep ==
  \A t \in Threads :
    (~Idle(t) /\ Top(t).pc \in Critical /\ Len(stack'[t]) < Len(stack[t])) =>
      _mutex'[Top(t).P] = Free

\* some constructor has called into its own registry instance, or some
\* thread waits for a guard in a chain of waits that never ends (two
\* constructors calling into each other's instance)
Stuck == \E u \in Threads : SelfCall(u) \/ ~CanRun(u, NumThreads)

BaseRegistered(f) ==
  \E B \in PrimaryTypes :
    /\ B # f.primary.runtime
    /\ IsOrDerivesFrom(f.primary.runtime, B)
    /\ _children[f.P][hash_code(B)] # NoMaker

\* C20: the type-keyed lookup matches the runtime type exactly: a createChild
\* whose object is of a class without an entry, derived from a class that
\* has one, calls no closure (not the base class's either) and ends with the
\* unknown-class error naming the object's own class.
C20_ExactTypeMatch ==
  \A t \in Threads : \A f \in FramesOf(t) :
    (f.cls = GSF /\ f.op = "createChild" /\ f.pc \in Critical
       /\ Stored(f) = NoMaker /\ BaseRegistered(f)) =>
      /\ f.calls = 0
      /\ f.pc \notin {"ctor", "inner"}
      /\ f.pc = "branch" => f.found = End
      /\ f.pc = "unlock" => f.ret = UnknownClass(f.primary.runtime)

\* only TestSubDerived1 has an entry; createChild of an object of the class
\* TestSubDerived1b derived from it is about to throw the unknown-class error
C20_Witness ==
  \E t \in Threads :
    /\ InOp(t, GSF, "createChild", "unlock")
    /\ Top(t).primary = Handle("TestSubDerived1b")
    /\ BaseOf("TestSubDerived1b") = "TestSubDerived1"
    /\ \A h \in HashCodes :
         _children[Top(t).P][h] =
           IF h = hash_code("TestSubDerived1") THEN d1 ELSE NoMaker
    /\ Top(t).calls = 0
    /\ Top(t).ret = UnknownClass("TestSubDerived1b")

\* ------------------------------------------------------------------ C21
\* a thread other than thread 1 whose registration of the second key, made
\* before thread 1 started, returned true
SetupWon(u) ==
  /\ u # 1
  /\ returned[u] # <<>>
  /\ returned[u][1].kind = "bool"
  /\ returned[u][1].val

\* the map of the roundtrip program before the first call of thread 1: the
\* first key absent, the second as the other threads left it
PriorMapping ==
  [n \in Names |->
     IF n = NameOf(2) /\ \E u \in Threads : SetupWon(u)
       THEN MakerOf(CHOOSE u \in Threads : SetupWon(u))
       ELSE NoMaker]

\* thread 1 of the roundtrip program is between its i-th call and the next
After(i) == Idle(1) /\ Len(returned[1]) = i

\* C21: on an absent key k, registerChild(k, c) succeeds and stores c, the
\* unregisterChild(k) that follows succeeds and leaves the map exactly as it
\* was before the registration, a later registerChild(k, c2) succeeds again
\* and stores c2, and the createChild(k) after it returns the object of c2,
\* not of the removed c.
C21_RegisterUnregisterInverse ==
  program.script = "roundtrip" =>
    LET k == NameOf(1)
        r == returned[1]
    IN /\ (After(0) /\ \A u \in Threads : Idle(u)) =>
            _children[GF1] = PriorMapping
       /\ Len(r) >= 1 => r[1] = Bool(TRUE)
       /\ After(1) => _children[GF1] = [PriorMapping EXCEPT ![k] = c1]
       /\ Len(r) >= 2 => r[2] = Bool(TRUE)
       /\ After(2) => _children[GF1] = PriorMapping
       /\ Len(r) >= 3 => r[3] = Bool(TRUE)
       /\ After(3) => _children[GF1] = [PriorMapping EXCEPT ![k] = c2]
       /\ Len(r) >= 4 => /\ r[4] = Instance(c2)
                         /\ r[4] # Instance(c1)

\* the four calls of thread 1 have returned, on a map that held the second
\* key before, while another thread created from the first key in between
C21_Witness ==
  /\ program.script = "roundtrip"
  /\ After(4)
  /\ returned[1] = <<Bool(TRUE), Bool(TRUE), Bool(TRUE), Instance(c2)>>
  /\ PriorMapping[NameOf(2)] # NoMaker
  /\ c1 # c2
  /\ \E u \in Threads :
       /\ SetupWon(u)
       /\ Len(returned[u]) = 2
       /\ returned[u][2] \in {Instance(c1), Instance(c2), UnknownChild(NameOf(1))}

====
